---- MODULE Spec2Model ----
(***************************************************************************)
(* Model of src/minesweeper.py: the Minesweeper board (the oracle), the    *)
(* Sentence class and the MinesweeperAI knowledge engine.                  *)
(*                                                                         *)
(* A cell is a tuple <<i, j>>.  A Sentence is a record [cells, count].     *)
(* The engine's knowledge is a sequence of Sentences (a Python list).      *)
(* Python's None is modelled by the empty tuple <<>>.                      *)
(***************************************************************************)
EXTENDS Integers, Sequences, FiniteSets, TLC

VARIABLES
    board,              \* Minesweeper.mines: the cells holding a mine
    moves_made,         \* MinesweeperAI.moves_made
    mines,              \* MinesweeperAI.mines
    safes,              \* MinesweeperAI.safes
    knowledge,          \* MinesweeperAI.knowledge
    something_changed,  \* update_knowledge's loop flag: TRUE while the loop runs
    last,               \* the last call made: its name, arguments and result
    calls,              \* how many calls a bounded caller has made
    passes              \* how many iterations a stepwise update_knowledge has made

vars == <<board, moves_made, mines, safes, knowledge, something_changed, last,
          calls, passes>>

----------------------------------------------------------------------------
(* Bounds *)

Height == 3
Width == 3
MaxMines == 2
MaxPasses == 8
\* a caller that may pass anything: its number of calls and its largest count
MaxCalls == 3
MaxCount == 1
\* a sentence handled on its own: its largest cell set and count
MaxSentenceCells == 3
MaxSentenceCount == 3
\* update_knowledge started on any knowledge base: its cells are the first
\* PropWidth cells of row 0, its counts 0 .. PropCount, its length <= PropLen;
\* the loop is followed for MaxPasses iterations
PropWidth == 2
PropCount == 4
PropLen == 3

----------------------------------------------------------------------------
(* The grid *)

None == <<>>

Cells == (0 .. Height - 1) \X (0 .. Width - 1)

\* add_knowledge, step 2: the 8-neighbourhood of cell clipped to the grid
Neighbors(cell) ==
    { n \in Cells :
        /\ n # cell
        /\ n[1] - cell[1] \in {-1, 0, 1}
        /\ n[2] - cell[2] \in {-1, 0, 1} }

\* Minesweeper.nearby_mines: the oracle's count for a cell
nearby_mines(cell) == Cardinality(Neighbors(cell) \cap board)

\* Minesweeper.is_mine
is_mine(cell) == cell \in board

----------------------------------------------------------------------------
(* class Sentence *)

Sentence(cells, count) == [cells |-> cells, count |-> count]

\* known_mines with the test on the size loosened to "at most"
known_mines_at_most(s) ==
    IF Cardinality(s.cells) <= s.count /\ s.count > 0 THEN s.cells ELSE {}

known_mines(s) ==
    IF Cardinality(s.cells) = s.count /\ s.count > 0 THEN s.cells ELSE {}

known_safes(s) ==
    IF s.count = 0 THEN s.cells ELSE {}

\* Sentence.mark_mine without the membership test of line 129
Sentence_mark_mine_unguarded(s, cell) ==
    [cells |-> s.cells \ {cell}, count |-> s.count - 1]

Sentence_mark_mine(s, cell) ==
    IF cell \in s.cells
    THEN [cells |-> s.cells \ {cell}, count |-> s.count - 1]
    ELSE s

\* Sentence.mark_safe that lowers the count as mark_mine does
Sentence_mark_safe_decrements(s, cell) ==
    IF cell \in s.cells
    THEN [cells |-> s.cells \ {cell}, count |-> s.count - 1]
    ELSE s

Sentence_mark_safe(s, cell) ==
    IF cell \in s.cells
    THEN [cells |-> s.cells \ {cell}, count |-> s.count]
    ELSE s

----------------------------------------------------------------------------
(* class MinesweeperAI, as operators on the record of its four fields *)

AI == [moves_made |-> moves_made, mines |-> mines, safes |-> safes,
       knowledge |-> knowledge]

InSeq(x, seq) == \E k \in DOMAIN seq : seq[k] = x

mark_mine(ai, cell) ==
    [ai EXCEPT !.mines = @ \cup {cell},
               !.knowledge = [k \in DOMAIN @ |-> Sentence_mark_mine(@[k], cell)]]

\* mark_safe that also withdraws the cell from mines
mark_safe_unmarks_mine(ai, cell) ==
    [ai EXCEPT !.safes = @ \cup {cell},
               !.mines = @ \ {cell},
               !.knowledge = [k \in DOMAIN @ |-> Sentence_mark_safe(@[k], cell)]]

mark_safe(ai, cell) ==
    [ai EXCEPT !.safes = @ \cup {cell},
               !.knowledge = [k \in DOMAIN @ |-> Sentence_mark_safe(@[k], cell)]]

\* update_knowledge, lines 239-241: the union of every sentence's certain cells
new_safes(ai) == UNION { known_safes(ai.knowledge[k]) : k \in DOMAIN ai.knowledge }

new_mines(ai) == UNION { known_mines(ai.knowledge[k]) : k \in DOMAIN ai.knowledge }

\* update_knowledge, lines 244-247: mark each cell of S not yet in safes
RECURSIVE mark_new_safes(_, _)
mark_new_safes(ai, S) ==
    IF S = {} THEN ai
    ELSE LET cell == CHOOSE c \in S : TRUE
         IN mark_new_safes(IF cell \notin ai.safes THEN mark_safe(ai, cell) ELSE ai,
                           S \ {cell})

\* update_knowledge, lines 250-253: mark each cell of S not yet in mines
RECURSIVE mark_new_mines(_, _)
mark_new_mines(ai, S) ==
    IF S = {} THEN ai
    ELSE LET cell == CHOOSE c \in S : TRUE
         IN mark_new_mines(IF cell \notin ai.mines THEN mark_mine(ai, cell) ELSE ai,
                           S \ {cell})

\* update_knowledge without line 256: empty sentences are kept
remove_empty_keeps_all(K) == K

\* update_knowledge, line 256
remove_empty(K) == SelectSeq(K, LAMBDA s : s.cells # {})

\* update_knowledge, lines 262-270: what the pair (sentence1, sentence2) adds
\* to new_sentences
infer_pair(K, acc, s1, s2) ==
    LET new_sentence == Sentence(s1.cells \ s2.cells, s1.count - s2.count)
    IN IF /\ s1 # s2
          /\ s2.cells \subseteq s1.cells
          /\ ~InSeq(new_sentence, K)
          /\ ~InSeq(new_sentence, acc)
          /\ new_sentence.cells # {}
       THEN Append(acc, new_sentence)
       ELSE acc

\* update_knowledge, lines 261-270: the inner loop, sentence2 = K[j], K[j+1], ...
\* (the test on Len makes TLC compute the list at each step, not at the end)
RECURSIVE infer_inner(_, _, _, _)
infer_inner(K, s1, j, acc) ==
    IF j > Len(K) \/ Len(acc) < 0 THEN acc
    ELSE infer_inner(K, s1, j + 1, infer_pair(K, acc, s1, K[j]))

\* update_knowledge, lines 259-270: the outer loop, sentence1 = K[i], K[i+1], ...
RECURSIVE infer_new_sentences(_, _, _)
infer_new_sentences(K, i, acc) ==
    IF i > Len(K) \/ Len(acc) < 0 THEN acc
    ELSE infer_new_sentences(K, i + 1, infer_inner(K, K[i], 1, acc))

\* update_pass without line 273: new sentences do not set the flag
update_pass_no_flag(ai) ==
    LET ns == new_safes(ai)
        nm == new_mines(ai)
        a1 == mark_new_safes(ai, ns)
        a2 == mark_new_mines(a1, nm)
        K  == remove_empty(a2.knowledge)
        new_sentences == infer_new_sentences(K, 1, <<>>)
    IN [ai |-> [a2 EXCEPT !.knowledge = K \o new_sentences],
        something_changed |->
            \/ ns \ ai.safes # {}
            \/ nm \ ai.mines # {}]

\* One iteration of update_knowledge's while loop (lines 234-273)
update_pass(ai) ==
    LET ns == new_safes(ai)
        nm == new_mines(ai)
        a1 == mark_new_safes(ai, ns)
        a2 == mark_new_mines(a1, nm)
        K  == remove_empty(a2.knowledge)
        new_sentences == infer_new_sentences(K, 1, <<>>)
    IN [ai |-> [a2 EXCEPT !.knowledge = K \o new_sentences],
        something_changed |->
            \/ ns \ ai.safes # {}
            \/ nm \ ai.mines # {}
            \/ new_sentences # <<>>]

\* update_knowledge without its loop: one iteration only
update_knowledge_once(ai, fuel) ==
    [ai |-> update_pass(ai).ai, something_changed |-> FALSE]

\* update_knowledge: the while loop, at most `fuel` iterations of it
RECURSIVE update_knowledge(_, _)
update_knowledge(ai, fuel) ==
    IF fuel = 0 THEN [ai |-> ai, something_changed |-> TRUE]
    ELSE LET r == update_pass(ai)
         IN IF r.something_changed THEN update_knowledge(r.ai, fuel - 1) ELSE r

\* the observation's sentence with the known mines left among its cells
observed_sentence_keeps_mines(ai, cell, count) ==
    Sentence(Neighbors(cell) \ ai.safes, count)

\* add_knowledge, lines 199-217: the sentence the observation yields
observed_sentence(ai, cell, count) ==
    LET neighbors == (Neighbors(cell) \ ai.safes) \ ai.mines
    IN Sentence(neighbors,
                count - Cardinality({n \in neighbors : n \in ai.mines}))

\* add_knowledge, lines 199-221: everything before the call of update_knowledge
record_move(ai, cell, count) ==
    LET a1 == mark_safe([ai EXCEPT !.moves_made = @ \cup {cell}], cell)
        s  == observed_sentence(a1, cell, count)
    IN IF s.cells # {} THEN [a1 EXCEPT !.knowledge = Append(@, s)] ELSE a1

add_knowledge(ai, cell, count) ==
    update_knowledge(record_move(ai, cell, count), MaxPasses)

\* make_safe_move: the cells the loop over self.safes can return
safe_moves(ai) == ai.safes \ ai.moves_made

\* make_random_move without the test on self.mines
choices_with_mines(ai) == { c \in Cells : c \notin ai.moves_made }

\* make_random_move: the list `choices`
choices(ai) == { c \in Cells : c \notin ai.moves_made /\ c \notin ai.mines }

----------------------------------------------------------------------------
(* Actions *)

\* last: the call's name, its cell argument or returned cell, its count
\* argument, the set it returned, the sentences add_knowledge appended, and
\* whether the call raised an exception (no method has a raise statement)
Call(op, cell, count, cells, added) ==
    [op |-> op, cell |-> cell, count |-> count, cells |-> cells, added |-> added,
     raised |-> FALSE]

SetAI(ai) ==
    /\ moves_made' = ai.moves_made
    /\ mines' = ai.mines
    /\ safes' = ai.safes
    /\ knowledge' = ai.knowledge

\* ai.add_knowledge(cell, count), with what line 221 appended kept in last
DoAddKnowledge(cell, count) ==
    LET before == mark_safe([AI EXCEPT !.moves_made = @ \cup {cell}], cell)
        after  == record_move(AI, cell, count)
        r      == add_knowledge(AI, cell, count)
    IN /\ SetAI(r.ai)
       /\ something_changed' = r.something_changed
       /\ last' = Call("add_knowledge", cell, count, {},
                       SubSeq(after.knowledge, Len(before.knowledge) + 1,
                              Len(after.knowledge)))

DoMakeSafeMove ==
    /\ \E c \in (IF safe_moves(AI) = {} THEN {None} ELSE safe_moves(AI)) :
        last' = Call("make_safe_move", c, 0, {}, <<>>)
    /\ UNCHANGED <<moves_made, mines, safes, knowledge, something_changed>>

DoMakeRandomMove ==
    /\ \E c \in (IF choices(AI) = {} THEN {None} ELSE choices(AI)) :
        last' = Call("make_random_move", c, 0, {}, <<>>)
    /\ UNCHANGED <<moves_made, mines, safes, knowledge, something_changed>>

----------------------------------------------------------------------------
(* Spec: a game.  The board is fixed; the driver reveals cells that hold no *)
(* mine and were not played, reports the board's count, and asks for moves *)

Init ==
    /\ board \in { b \in SUBSET Cells : Cardinality(b) <= MaxMines }
    /\ moves_made = {}
    /\ mines = {}
    /\ safes = {}
    /\ knowledge = <<>>
    /\ something_changed = FALSE
    /\ last = Call("init", None, 0, {}, <<>>)
    /\ calls = 0
    /\ passes = 0

\* ai.add_knowledge(cell, game.nearby_mines(cell))
Observe ==
    /\ ~something_changed
    /\ \E cell \in Cells :
        /\ ~is_mine(cell)
        /\ cell \notin moves_made
        /\ DoAddKnowledge(cell, nearby_mines(cell))
    /\ UNCHANGED <<board, calls, passes>>

MakeSafeMove ==
    /\ ~something_changed
    /\ DoMakeSafeMove
    /\ UNCHANGED <<board, calls, passes>>

MakeRandomMove ==
    /\ ~something_changed
    /\ DoMakeRandomMove
    /\ UNCHANGED <<board, calls, passes>>

Next == Observe \/ MakeSafeMove \/ MakeRandomMove

Spec == Init /\ [][Next]_vars

----------------------------------------------------------------------------
(* SpecOps: a caller that makes up to MaxCalls calls of the public methods  *)
(* with any arguments: played cells, cells off the grid, any count          *)

OffGrid == { <<-1, 0>>, <<Height, Width - 1>> }

Tick ==
    /\ ~something_changed
    /\ calls < MaxCalls
    /\ calls' = calls + 1
    /\ UNCHANGED <<board, passes>>

CallAddKnowledge ==
    /\ Tick
    /\ \E cell \in Cells \cup OffGrid, count \in 0 .. MaxCount :
        DoAddKnowledge(cell, count)

CallMarkMine ==
    /\ Tick
    /\ \E cell \in Cells :
        /\ SetAI(mark_mine(AI, cell))
        /\ last' = Call("mark_mine", cell, 0, {}, <<>>)
    /\ UNCHANGED something_changed

CallMarkSafe ==
    /\ Tick
    /\ \E cell \in Cells :
        /\ SetAI(mark_safe(AI, cell))
        /\ last' = Call("mark_safe", cell, 0, {}, <<>>)
    /\ UNCHANGED something_changed

CallMakeSafeMove == Tick /\ DoMakeSafeMove

CallMakeRandomMove == Tick /\ DoMakeRandomMove

InitOps ==
    /\ board = {}
    /\ moves_made = {}
    /\ mines = {}
    /\ safes = {}
    /\ knowledge = <<>>
    /\ something_changed = FALSE
    /\ last = Call("init", None, 0, {}, <<>>)
    /\ calls = 0
    /\ passes = 0

NextOps ==
    \/ CallAddKnowledge
    \/ CallMarkMine
    \/ CallMarkSafe
    \/ CallMakeSafeMove
    \/ CallMakeRandomMove

SpecOps == InitOps /\ [][NextOps]_vars

----------------------------------------------------------------------------
(* SpecSentence: one Sentence, knowledge[1], and the calls of its methods   *)

InitSentence ==
    /\ board = {}
    /\ moves_made = {}
    /\ mines = {}
    /\ safes = {}
    /\ knowledge \in { <<Sentence(c, n)>> :
                        c \in { x \in SUBSET Cells : Cardinality(x) <= MaxSentenceCells },
                        n \in 0 .. MaxSentenceCount }
    /\ something_changed = FALSE
    /\ last = Call("init", None, 0, {}, <<>>)
    /\ calls = 0
    /\ passes = 0

CallKnownMines ==
    /\ last' = Call("known_mines", None, 0, known_mines(knowledge[1]), <<>>)
    /\ UNCHANGED <<board, moves_made, mines, safes, knowledge, something_changed, calls, passes>>

CallKnownSafes ==
    /\ last' = Call("known_safes", None, 0, known_safes(knowledge[1]), <<>>)
    /\ UNCHANGED <<board, moves_made, mines, safes, knowledge, something_changed, calls, passes>>

CallSentenceMarkMine ==
    /\ \E cell \in Cells :
        /\ knowledge' = <<Sentence_mark_mine(knowledge[1], cell)>>
        /\ last' = Call("Sentence.mark_mine", cell, 0, {}, <<>>)
    /\ UNCHANGED <<board, moves_made, mines, safes, something_changed, calls, passes>>

CallSentenceMarkSafe ==
    /\ \E cell \in Cells :
        /\ knowledge' = <<Sentence_mark_safe(knowledge[1], cell)>>
        /\ last' = Call("Sentence.mark_safe", cell, 0, {}, <<>>)
    /\ UNCHANGED <<board, moves_made, mines, safes, something_changed, calls, passes>>

NextSentence ==
    \/ CallKnownMines
    \/ CallKnownSafes
    \/ CallSentenceMarkMine
    \/ CallSentenceMarkSafe

SpecSentence == InitSentence /\ [][NextSentence]_vars

----------------------------------------------------------------------------
(* SpecProp: update_knowledge entered with any knowledge base, one          *)
(* iteration of its while loop per step                                     *)

PropCells == { c \in Cells : c[1] = 0 /\ c[2] < PropWidth }

PropSentences ==
    { Sentence(c, n) : c \in (SUBSET PropCells) \ {{}}, n \in 0 .. PropCount }

RECURSIVE SeqsUpTo(_, _)
SeqsUpTo(S, n) ==
    IF n = 0 THEN { <<>> }
    ELSE LET shorter == SeqsUpTo(S, n - 1)
         IN shorter \cup { Append(q, x) : q \in shorter, x \in S }

InitProp ==
    /\ board = {}
    /\ moves_made = {}
    /\ mines = {}
    /\ safes = {}
    /\ knowledge = <<>>
    /\ something_changed = FALSE
    /\ last = Call("init", None, 0, {}, <<>>)
    /\ calls = 0
    /\ passes = 0

\* a fresh engine is given a knowledge base and update_knowledge is entered
\* (line 232)
EnterUpdate ==
    /\ last.op = "init"
    /\ knowledge' \in SeqsUpTo(PropSentences, PropLen)
    /\ something_changed' = TRUE
    /\ last' = Call("update_knowledge", None, 0, {}, <<>>)
    /\ UNCHANGED <<board, moves_made, mines, safes, calls, passes>>

\* lines 233-273: the loop test and one iteration
UpdatePass ==
    /\ something_changed
    /\ passes < MaxPasses
    /\ LET r == update_pass(AI)
       IN /\ SetAI(r.ai)
          /\ something_changed' = r.something_changed
    /\ passes' = passes + 1
    /\ UNCHANGED <<board, last, calls>>

NextProp == EnterUpdate \/ UpdatePass

SpecProp == InitProp /\ [][NextProp]_vars

----------------------------------------------------------------------------
(* Properties *)

\* No state has update_knowledge's loop still running: every call made
\* returned within MaxPasses iterations.  It holds of Spec, and of SpecOps
\* with up to three calls; with four calls SpecOps reaches a call that does
\* not return (add_knowledge of (1,1) with 1, of (-1,0) with 2, of (0,1) with
\* 1 and of (1,1) again with 2, on a grid of four rows).
Returned == ~something_changed

\* C1: in every state a game reaches by truthful observations, safes and
\* mines are disjoint.
C1_SafesMinesDisjoint == safes \cap mines = {}

\* C2: under truthful observations no cell of safes holds a mine, and
\* make_safe_move never returns a cell that holds a mine.
C2_SafeMoveIsNoMine ==
    /\ safes \cap board = {}
    /\ last.op = "make_safe_move" /\ last.cell # None => ~is_mine(last.cell)

\* C3: add_knowledge(cell, count) appends exactly one sentence, whose cells
\* are U = Neighbors(cell) minus safes minus mines and whose count is the
\* count given minus the number of neighbours already in mines, when U is
\* not empty, and appends nothing when U is empty.
C3_Undetermined(cell) == (Neighbors(cell) \ (safes \cup {cell})) \ mines

C3_AppendedSentence ==
    [][ last'.op = "add_knowledge" =>
          LET U == C3_Undetermined(last'.cell)
              n == last'.count - Cardinality(Neighbors(last'.cell) \cap mines)
          IN last'.added = IF U # {} THEN << Sentence(U, n) >> ELSE << >> ]_vars

\* C4: under truthful observations every sentence of the knowledge base has
\* 0 <= count <= len(cells).
C4_CountWithinCells ==
    \A k \in DOMAIN knowledge :
        /\ 0 <= knowledge[k].count
        /\ knowledge[k].count <= Cardinality(knowledge[k].cells)

\* C5: update_knowledge terminates on any finite knowledge base: its loop
\* reaches an iteration that changes nothing.  A run of the loop is followed
\* for MaxPasses iterations, so the claim is stated for that many: once
\* MaxPasses iterations were made, the loop has stopped.
C5_Terminates == passes = MaxPasses => ~something_changed

\* C6: every operation leaves moves_made, safes and mines supersets of what
\* they were.
C6_OnlyGrow ==
    [][ /\ moves_made \subseteq moves_made'
        /\ safes \subseteq safes'
        /\ mines \subseteq mines' ]_vars

C6_Witness ==
    /\ calls = MaxCalls
    /\ moves_made # {}
    /\ safes \ moves_made # {}
    /\ mines # {}

\* C7: once update_knowledge has returned, for any two sentences A # B of
\* the knowledge base with B.cells a subset of A.cells and A.cells - B.cells
\* not empty, the sentence (A.cells - B.cells, A.count - B.count) is in the
\* knowledge base.
C7_Resolvable(A, B) ==
    /\ A # B
    /\ B.cells \subseteq A.cells
    /\ A.cells \ B.cells # {}

C7_SubsetClosed ==
    ~something_changed =>
        \A i, j \in DOMAIN knowledge :
            C7_Resolvable(knowledge[i], knowledge[j]) =>
                InSeq(Sentence(knowledge[i].cells \ knowledge[j].cells,
                               knowledge[i].count - knowledge[j].count),
                      knowledge)

C7_Witness ==
    /\ ~something_changed
    /\ last.op = "add_knowledge"
    /\ \E i, j \in DOMAIN knowledge : C7_Resolvable(knowledge[i], knowledge[j])

\* C8: known_safes returns all the cells when count = 0 and the empty set
\* otherwise; known_mines returns all the cells when len(cells) = count and
\* count > 0 and the empty set otherwise; neither changes the sentence.
C8_Certain ==
    [][ LET s == knowledge[1]
        IN /\ last'.op = "known_safes" =>
                /\ last'.cells = IF s.count = 0 THEN s.cells ELSE {}
                /\ knowledge' = knowledge
           /\ last'.op = "known_mines" =>
                /\ last'.cells = IF Cardinality(s.cells) = s.count /\ s.count > 0
                                 THEN s.cells ELSE {}
                /\ knowledge' = knowledge ]_vars

C8_Witness ==
    /\ last.op = "known_mines"
    /\ last.cells # {}
    /\ last.cells = knowledge[1].cells

\* C9: after a truthful add_knowledge(cell, 0) has returned, every neighbour
\* of cell is in safes.
C9_ZeroMakesNeighboursSafe ==
    last.op = "add_knowledge" /\ last.count = 0 /\ ~something_changed =>
        Neighbors(last.cell) \subseteq safes

\* C10: add_knowledge for a cell already in moves_made, or for a cell off
\* the grid, raises and leaves moves_made, safes, mines and knowledge as
\* they were.
C10_RejectsBadCell ==
    [][ /\ last'.op = "add_knowledge"
        /\ calls' = calls + 1
        /\ last'.cell \in moves_made \/ last'.cell \notin Cells
        => /\ last'.raised
           /\ UNCHANGED <<moves_made, safes, mines, knowledge>> ]_vars

\* C11: make_random_move returns a cell of the grid that is in neither
\* moves_made nor mines, returns None exactly when every cell of the grid is
\* in moves_made or mines, and changes nothing of the engine.
C11_RandomMove ==
    [][ last'.op = "make_random_move" =>
          /\ last'.cell = None <=> Cells \subseteq (moves_made \cup mines)
          /\ last'.cell # None =>
                /\ last'.cell \in Cells
                /\ last'.cell \notin moves_made
                /\ last'.cell \notin mines
          /\ UNCHANGED <<moves_made, mines, safes, knowledge>> ]_vars

C11_Witness ==
    /\ last.op = "make_random_move"
    /\ last.cell = None
    /\ mines # {}

\* C12: in any state the public methods reach, mark_mine(cell) for a cell
\* already in mines changes neither mines, safes, moves_made nor any
\* sentence, and raises nothing.
C12_MarkMineIdempotent ==
    [][ /\ last'.op = "mark_mine"
        /\ calls' = calls + 1
        /\ last'.cell \in mines
        => /\ UNCHANGED <<mines, safes, moves_made, knowledge>>
           /\ ~last'.raised ]_vars

\* Three calls were made and the last one is mark_mine(c).  One cell x was
\* played and the only sentence is Neighbors(x) without c, with count 1: the
\* calls were mark_mine(c), add_knowledge(x, 1), mark_mine(c), since a
\* mark_mine(c) made only after add_knowledge(x, 1) leaves the count 0.
C12_Witness ==
    /\ calls = 3
    /\ last.op = "mark_mine"
    /\ mines = {last.cell}
    /\ \E x \in Cells :
        /\ moves_made = {x}
        /\ safes = {x}
        /\ last.cell \in Neighbors(x)
        /\ knowledge = << Sentence(Neighbors(x) \ {last.cell}, 1) >>

\* C13: Sentence.mark_mine(cell) removes cell and lowers count by exactly 1
\* when cell is in cells; Sentence.mark_safe(cell) removes cell and keeps
\* count when cell is in cells; both leave cells and count as they were when
\* cell is not in cells; no other cell is removed.
C13_SentenceMarks ==
    [][ LET s == knowledge[1]
            t == knowledge'[1]
            c == last'.cell
        IN /\ last'.op = "Sentence.mark_mine" =>
                IF c \in s.cells
                THEN t.cells = s.cells \ {c} /\ t.count = s.count - 1
                ELSE t = s
           /\ last'.op = "Sentence.mark_safe" =>
                IF c \in s.cells
                THEN t.cells = s.cells \ {c} /\ t.count = s.count
                ELSE t = s ]_vars

\* a count below 0 comes only from a mark_mine that removed a cell
C13_Witness ==
    /\ last.op = "Sentence.mark_safe"
    /\ knowledge[1].count < 0
    /\ knowledge[1].cells # {}

\* C14: under truthful observations every sentence of the knowledge base is
\* true of the board: the number of mines among its cells is its count.
C14_SentencesTrue ==
    \A k \in DOMAIN knowledge :
        Cardinality(knowledge[k].cells \cap board) = knowledge[k].count

\* C15: under truthful observations every cell of mines holds a mine.
C15_MinesAreMines == mines \subseteq board

\* C16: under truthful observations, when make_safe_move and
\* make_random_move both return None, every cell that holds no mine is in
\* moves_made.
C16_ExhaustionResolves ==
    ~something_changed /\ safe_moves(AI) = {} /\ choices(AI) = {} =>
        (Cells \ board) \subseteq moves_made

\* C17: once add_knowledge has returned, no sentence of the knowledge base
\* has an empty cell set.
C17_NoEmptySentence ==
    ~something_changed =>
        \A k \in DOMAIN knowledge : knowledge[k].cells # {}

\* the sentence the call appended was emptied by the marks and discarded
C17_Witness ==
    /\ ~something_changed
    /\ last.op = "add_knowledge"
    /\ last.added # <<>>
    /\ mines # {}
    /\ knowledge = <<>>

\* C18: once add_knowledge, mark_safe or mark_mine has returned, no sentence
\* of the knowledge base contains a cell of safes or of mines.
C18_NoKnownCellInSentence ==
    ~something_changed =>
        \A k \in DOMAIN knowledge :
            knowledge[k].cells \cap (safes \cup mines) = {}

C18_Witness ==
    /\ ~something_changed
    /\ calls = MaxCalls
    /\ last.op = "add_knowledge"
    /\ last.added # <<>>
    /\ Neighbors(last.cell) \cap mines # {}
    /\ knowledge # <<>>

\* C19: once add_knowledge has returned, no sentence of the knowledge base
\* has count 0 and none has count = len(cells) > 0.
C19_NothingLeftCertain ==
    ~something_changed =>
        \A k \in DOMAIN knowledge :
            /\ knowledge[k].count # 0
            /\ ~(knowledge[k].count = Cardinality(knowledge[k].cells)
                 /\ knowledge[k].count > 0)

C19_Witness ==
    /\ ~something_changed
    /\ last.op = "add_knowledge"
    /\ mines # {}
    /\ safes \ moves_made # {}
    /\ knowledge # <<>>

====
